---- MODULE Spec2Model ----
(***************************************************************************)
(* GroveMusic playlist pipeline (workers/pipeline/src/index.ts).           *)
(*                                                                         *)
(* MusicPipelineDO is a Durable Object: one instance per runId, one        *)
(* JavaScript thread.  Request handlers (/start, /status, /cancel) and the *)
(* background execution launched by state.waitUntil interleave only where  *)
(* the code awaits an external call (Last.fm, the LLM, D1, R2).  While a   *)
(* storage operation (state.storage.get/put) is awaited the object's input *)
(* gate is closed and no other event is delivered, so the code between two *)
(* external awaits runs without interleaving; the model still takes one    *)
(* step per persisted write so that every persisted state is a state of    *)
(* the model.                                                              *)
(*                                                                         *)
(* pipelineState (this.pipelineState) is the in-memory object, stored is   *)
(* the value under the storage key 'pipelineState'.  storage.put stores a  *)
(* copy and storage.get returns a copy.  Track lists are modelled by their *)
(* lengths.                                                                *)
(***************************************************************************)
EXTENDS Integers, Sequences, FiniteSets, TLC

\* ---------------------------------------------------------------- bounds
\* number of /start requests the DO receives for the run
MaxStarts == 2
\* largest number of candidates the discovery strategies return
MaxCand == 1
\* playlist sizes a /start body may carry (small stand-ins)
MaxSize == 1

Execs == 1..MaxStarts
PlaylistSizes == 1..MaxSize

\* ---------------------------------------------------------------- types
\* PipelineStatus, in the order executePipeline enters the states
StageOrder ==
    <<"pending", "resolving", "enriching", "generating", "scoring",
      "curating", "explaining", "complete">>

PipelineStatus == {StageOrder[i] : i \in 1..Len(StageOrder)} \cup {"failed"}

Terminal == {"complete", "failed"}

\* null (this.pipelineState === null, storage.get(...) === undefined,
\* error: null)
Null == [null |-> TRUE]

VARIABLES
    pipelineState,  \* this.pipelineState
    stored,         \* state.storage 'pipelineState'
    pc,             \* position of each background executePipeline()
    local,          \* const captured by a stage before its await
    starts,         \* number of /start requests handled
    hasApiKey,      \* env.ANTHROPIC_API_KEY is set
    dbStatus,       \* runs.status of the run's row in D1
    dbTrackCount,   \* runs.track_count of that row (-1: NULL)
    r2Key,          \* runs.r2_key has been written
    \* history, kept while the run has received a single /start (the runs the
    \* properties below are stated for) and dropped by a second /start:
    cancelled,      \* a /cancel has changed the state
    cancelPending,  \* a non-terminal run was cancelled and no /status was answered since
    lookupFailed    \* a discovery lookup of the generating stage has failed

pipelineVars ==
    <<pipelineState, stored, pc, local, starts, hasApiKey, dbStatus,
      dbTrackCount, r2Key, cancelled, cancelPending, lookupFailed>>

\* ----------------------------------------------- rate limiter and adapters
\* callers of the global RateLimiterDO that are in flight together
MaxCallers == 2
\* acquires a bucket answers beyond its capacity
MaxExtra == 2
\* milliseconds of wall-clock time that pass after Init
MaxElapsed == 1000
\* Date.now() at Init (a positive number of milliseconds)
Epoch == 1

Callers == 1..MaxCallers

\* milliseconds per second, and the unit token counts are kept in: the code's
\* fractional token counts are integers here, 1 token = 1000
MsPerSecond == 1000

\* configs of RateLimiterDO.fetch
configs ==
    [lastfm |-> [maxTokens |-> 5, refillRate |-> 5],
     musicbrainz |-> [maxTokens |-> 1, refillRate |-> 1],
     default |-> [maxTokens |-> 10, refillRate |-> 10]]

\* the api names requests carry ('default' when the parameter is absent)
Apis == DOMAIN configs

\* the code paths that send requests to an external API
Adapters == {"lastfmRequest", "LastfmService", "MusicBrainzService"}

\* the bucket an adapter acquires from
AdapterApi(kind) == IF kind = "MusicBrainzService" THEN "musicbrainz" ELSE "lastfm"

\* setTimeout(resolve, retryAfter || d): the d of each adapter
DefaultSleep(kind) == IF kind = "MusicBrainzService" THEN 1000 ELSE 200

\* the response status an adapter answers by waiting and calling itself
\* again (0: none, every non-ok response is thrown)
ThrottleStatus(kind) ==
    CASE kind = "LastfmService" -> 429
      [] kind = "MusicBrainzService" -> 503
      [] OTHER -> 0

\* the delay before that call
Backoff(kind) == IF kind = "MusicBrainzService" THEN 2000 ELSE 1000

\* response statuses of the external APIs
Statuses == {200, 429, 500, 503}

VARIABLES
    clock,          \* Date.now()
    tokens,         \* limiter storage 'tokens:<api>' (absent keys are not in the domain)
    lastRefill,     \* limiter storage 'lastRefill:<api>'
    cpc,            \* position of each caller
    creq,           \* each caller's request and the limiter handler's locals for it
    \* history:
    answered,       \* acquires answered, per api
    granted,        \* acquires answered with allowed: true, per api
    sent,           \* requests sent to the external API, per api
    lastResp        \* the limiter's latest answer, per api

limiterVars ==
    <<clock, tokens, lastRefill, cpc, creq, answered, granted, sent, lastResp>>

\* a caller with no request
IdleReq ==
    [kind |-> "none", api |-> "none", tokens |-> 0, lastRefill |-> 0, now |-> 0,
     wake |-> 0, next |-> "idle", retries |-> 0]

\* no answer yet
NoResp == [allowed |-> TRUE, retryAfter |-> 0, at |-> 0]

LimiterInit ==
    /\ clock = Epoch
    /\ tokens = [a \in {} |-> 0]
    /\ lastRefill = [a \in {} |-> 0]
    /\ cpc = [c \in Callers |-> "idle"]
    /\ creq = [c \in Callers |-> IdleReq]
    /\ answered = [a \in Apis |-> 0]
    /\ granted = [a \in Apis |-> 0]
    /\ sent = [a \in Apis |-> 0]
    /\ lastResp = [a \in Apis |-> NoResp]

\* ----------------------------------------------------- candidate generator
\* MusicBrainz ids ('' when a track has none) and titles the Last.fm
\* responses carry
Mbids == {"", "m1", "m2", "m3"}
Titles == {"t1", "t2"}

\* a track as the pool holds it (the fields of EnrichedTrack the Map key is
\* built from)
Tracks == [mbid : Mbids, title : Titles]

\* a track.getInfo answer: no answer (the call throws), or the fields
\* enrichCandidate reads ('' when the answer lacks that field)
Infos == {[failed |-> TRUE, mbid |-> "", name |-> ""]}
            \cup [failed : {FALSE}, mbid : Mbids, name : Titles \cup {""}]

VARIABLES
    gpc,            \* position of generateCandidates
    seed,           \* const seed = candidatePool[0]
    seedHasTags,    \* seed.tags.length > 0
    targetSize,     \* const targetSize
    candidates,     \* const candidates: Map, as its values in insertion order
    candidatePool,  \* this.pipelineState.candidatePool as generateCandidates leaves it
    scoredPool      \* the tracks scoreCandidates scores, in pool order

generatorVars ==
    <<gpc, seed, seedHasTags, targetSize, candidates, candidatePool, scoredPool>>

GeneratorInit ==
    /\ gpc = "idle"
    /\ seed = [mbid |-> "", title |-> "t1"]
    /\ seedHasTags = FALSE
    /\ targetSize = 1
    /\ candidates = << >>
    /\ candidatePool = << >>
    /\ scoredPool = << >>

\* -------------------------------------------------------------- scoring
\* release years (0: none), era preferences (<< >>: none), playcounts and
\* popularityBias values the scoring functions are applied to
Years == {0, 1990, 1995, 2000}
EraRanges == {<< >>, <<1992, 1998>>}
Playcounts ==
    {0, 99999, 100000, 100001, 999999, 1000000, 1000001, 99999999, 999999999}
Biases == {"none", "popular", "deep-cuts", "hidden-gems", "balanced"}

VARIABLES
    spc,            \* position of the scoring of one candidate
    scoreIn,        \* the seed, the candidate and the preferences
    scoreOut,       \* the ScoredTrack's scores and category
    fallbackReason  \* the sentence generateFallbackReason returns for the track

scorerVars == <<spc, scoreIn, scoreOut, fallbackReason>>

\* the inputs of one loop iteration of scoreCandidates
ScoreInputs ==
    [seedTags : SUBSET {"rock", "pop"},
     candTags : SUBSET {"Rock", "pop", "jazz"},
     seedArtist : {"a"},
     candArtist : {"A", "b"},
     seedSimilar : SUBSET {"B"},
     candSimilar : SUBSET {"A"},
     seedYear : {0, 1995},
     candYear : Years,
     eraRange : EraRanges,
     playcountKnown : BOOLEAN,
     playcount : Playcounts,
     bias : Biases]

NoScores ==
    [tagOverlap |-> 0, artistSimilarity |-> 0, temporalProximity |-> 0,
     vectorSimilarity |-> 0, popularityFit |-> 0, overall |-> 0,
     category |-> "none"]

ScorerInit ==
    /\ spc = "idle"
    /\ scoreIn = [seedTags |-> {}, candTags |-> {}, seedArtist |-> "a",
                  candArtist |-> "b", seedSimilar |-> {}, candSimilar |-> {},
                  seedYear |-> 0, candYear |-> 0, eraRange |-> << >>,
                  playcountKnown |-> FALSE, playcount |-> 0, bias |-> "none"]
    /\ scoreOut = NoScores
    /\ fallbackReason = "none"

\* ------------------------------------------------ scored list and playlist
\* largest number of candidates scoreCandidates scores
MaxScored == 5
\* largest playlistSize curatePlaylist is given
MaxTarget == 5
\* largest number of entries in the array the LLM answers with
MaxAnswer == 1

\* overall scores of the candidates (two levels, so that ties occur)
Overalls == {3, 7}
Categories == {"popular", "deep-cut", "hidden-gem"}

\* an entry of the LLM's array: an empty or a non-empty string
AnswerEntries == {"", "text"}

VARIABLES
    lpc,            \* position in scoreCandidates .. generateExplanations
    scored,         \* const scored, then pipelineState.scoredCandidates
    playlistTarget, \* const targetSize of curatePlaylist
    finalPlaylist   \* pipelineState.finalPlaylist

playlistVars == <<lpc, scored, playlistTarget, finalPlaylist>>

PlaylistInit ==
    /\ lpc = "scoring"
    /\ scored = << >>
    /\ playlistTarget = 0
    /\ finalPlaylist = << >>

\* ------------------------------------------------------------ status stream
VARIABLES
    streamPc,       \* the /stream response: none, open, closed (by the server), cancelled (by the client)
    interval,       \* the setInterval timer of the stream is active
    lastEmit,       \* the data of the latest event enqueued (Null: none yet)
    emitParity      \* flips at every event enqueued

streamVars == <<streamPc, interval, lastEmit, emitParity>>

StreamInit ==
    /\ streamPc = "none"
    /\ interval = FALSE
    /\ lastEmit = Null
    /\ emitParity = FALSE

\* ------------------------------------------------- credits (POST /api/generate)
\* generate requests of one user that are in flight together
MaxRequests == 2

Requests == 1..MaxRequests

\* users.credits_available of a new user (schema.sql)
DefaultCredits == 5

\* CREDIT_COSTS of lib/types: credits per playlist size
CREDIT_COSTS == [s \in {15, 30, 50, 75, 100} |->
                    CASE s = 15 -> 1 [] s = 30 -> 2 [] s = 50 -> 2
                      [] s = 75 -> 3 [] OTHER -> 4]

VARIABLES
    creditsAvailable,   \* users.credits_available
    creditsPending,     \* users.credits_pending
    creditsUsedTotal,   \* users.credits_used_total
    qpc,                \* position of each generate request
    qreq,               \* its locals: user.credits_available as read, creditsNeeded
    runs                \* the run of each request: its row in runs and its pipeline object

creditVars ==
    <<creditsAvailable, creditsPending, creditsUsedTotal, qpc, qreq, runs>>

\* a request that has not read the user row
NoRequest == [creditsAvailable |-> 0, creditsNeeded |-> 0]

CreditInit ==
    /\ creditsAvailable = DefaultCredits
    /\ creditsPending = 0
    /\ creditsUsedTotal = 0
    /\ qpc = [q \in Requests |-> "idle"]
    /\ qreq = [q \in Requests |-> NoRequest]
    /\ runs = [q \in Requests |-> "none"]

\* ------------------------------------------------------- metadata caches
\* lookups made through the service library (LastfmService,
\* MusicBrainzService) that are in flight together
MaxLookups == 2

Lookups == 1..MaxLookups

\* the cached lookups followed, and the key each derives from its query
\* (CACHE_KEYS.lastfmTrack(mbid), CACHE_KEYS.mbRecording(mbid)) for one mbid
CachedLookups == {"getTrackInfo", "getRecording"}

\* what the upstream API answers for the query (it may change over time)
Payloads == {"v1", "v2"}

VARIABLES
    cache,          \* the KV namespace: key -> JSON value ("none": no entry)
    kpc,            \* position of each lookup
    kreq            \* its method and locals, and what it has done

cacheVars == <<cache, kpc, kreq>>

\* a lookup that has not begun
NoLookup ==
    [method |-> "none", cached |-> "none", data |-> "none", result |-> "none",
     acquired |-> FALSE, fetched |-> FALSE, failed |-> FALSE]

CacheInit ==
    /\ cache = [k \in CachedLookups |-> "none"]
    /\ kpc = [l \in Lookups |-> "idle"]
    /\ kreq = [l \in Lookups |-> NoLookup]

\* what a step of the pipeline object leaves alone
outsidePipeline ==
    <<limiterVars, generatorVars, scorerVars, playlistVars, streamVars,
      creditVars, cacheVars>>

\* what a step of the limiter or of an adapter leaves alone
outsideLimiter ==
    <<pipelineVars, generatorVars, scorerVars, playlistVars, streamVars,
      creditVars, cacheVars>>

\* what a step of generateCandidates leaves alone
outsideGenerator ==
    <<pipelineVars, limiterVars, scorerVars, playlistVars, streamVars,
      creditVars, cacheVars>>

\* what the scoring of a candidate leaves alone
outsideScorer ==
    <<pipelineVars, limiterVars, generatorVars, playlistVars, streamVars,
      creditVars, cacheVars>>

\* what a step on the scored list and the playlist leaves alone
outsidePlaylist ==
    <<pipelineVars, limiterVars, generatorVars, scorerVars, streamVars,
      creditVars, cacheVars>>

\* what a step of the status stream leaves alone besides the pipeline state
outsideStream ==
    <<limiterVars, generatorVars, scorerVars, playlistVars, creditVars,
      cacheVars>>

\* what a step of a generate request or of its run leaves alone
outsideCredits ==
    <<pipelineVars, limiterVars, generatorVars, scorerVars, playlistVars,
      streamVars, cacheVars>>

vars ==
    <<pipelineVars, limiterVars, generatorVars, scorerVars, playlistVars,
      streamVars, creditVars, cacheVars>>

\* what a step of a cached lookup leaves alone
outsideCache ==
    <<pipelineVars, limiterVars, generatorVars, scorerVars, playlistVars,
      streamVars, creditVars>>

\* positions at which the execution's next step is a storage write that
\* follows the previous one without an external await in between
GatedPcs ==
    {"updResolving", "updEnriching", "updGenerating", "updScoring", "score",
     "updCurating", "curate", "updExplaining", "explainFallback",
     "updComplete", "setCompletedAt"}

Gated == \E e \in Execs : pc[e] \in GatedPcs

Min(a, b) == IF a < b THEN a ELSE b

\* ------------------------------------------------------------ persistence
\* saveState(): storage.put('pipelineState', this.pipelineState)
saveState(st) ==
    /\ pipelineState' = st
    /\ stored' = st

\* updateStatus that persists the status and leaves the progress behind
updateStatus_keepProgress(st, status, progress) ==
    [st EXCEPT !.status = status]

\* updateStatus(status, progress)
updateStatus(st, status, progress) ==
    [st EXCEPT !.status = status, !.progress = progress]

\* the catch block of executePipeline
CatchError(st, message) ==
    [st EXCEPT !.error = [code |-> "PIPELINE_ERROR", message |-> message,
                          stage |-> st.status, retryable |-> TRUE],
               !.status = "failed"]

\* ---------------------------------------------------------------- Init
Init ==
    /\ pipelineState = Null
    /\ stored = Null
    /\ pc = [e \in Execs |-> "idle"]
    /\ local = [e \in Execs |-> 0]
    /\ starts = 0
    /\ hasApiKey \in BOOLEAN
    /\ dbStatus = "pending"
    /\ dbTrackCount = -1
    /\ r2Key = FALSE
    /\ cancelled = FALSE
    /\ cancelPending = FALSE
    /\ lookupFailed = FALSE
    /\ LimiterInit
    /\ GeneratorInit
    /\ ScorerInit
    /\ PlaylistInit
    /\ StreamInit
    /\ CreditInit
    /\ CacheInit

\* ------------------------------------------------------- request handlers
\* POST /start: build a fresh state, persist it and launch executePipeline
\* in the background (no check for an existing state)
startPipeline ==
    /\ ~Gated
    /\ starts < MaxStarts
    /\ \E size \in PlaylistSizes :
         saveState([status |-> "pending",
                    playlistSize |-> size,
                    resolvedTrack |-> FALSE,
                    candidatePool |-> 0,
                    scoredCandidates |-> 0,
                    finalPlaylist |-> 0,
                    reasons |-> FALSE,
                    progress |-> 0,
                    error |-> Null,
                    completedAt |-> FALSE])
    /\ starts' = starts + 1
    /\ pc' = [pc EXCEPT ![starts + 1] = "updResolving"]
    /\ cancelled' = FALSE
    /\ cancelPending' = FALSE
    /\ lookupFailed' = FALSE
    /\ UNCHANGED <<local, hasApiKey, dbStatus, dbTrackCount, r2Key>>
    /\ UNCHANGED outsidePipeline

\* the JSON body of a /status response
StatusBody(st) ==
    IF st = Null
    THEN [status |-> "idle", progress |-> 0]
    ELSE [status |-> st.status, progress |-> st.progress, error |-> st.error,
          seedTrack |-> st.resolvedTrack,
          playlist |-> IF st.status = "complete" THEN st.finalPlaylist ELSE -1,
          processingTime |-> st.completedAt]

\* GET /status: loadState(), then answer from this.pipelineState
getStatus ==
    /\ ~Gated
    /\ pipelineState' = stored
    /\ cancelPending' = FALSE
    /\ UNCHANGED <<stored, pc, local, starts, hasApiKey, dbStatus, dbTrackCount, r2Key,
                   cancelled, lookupFailed>>
    /\ UNCHANGED outsidePipeline

\* the state cancelPipeline() writes: status is assigned first, and the
\* error's stage is read from the status after that assignment
Cancelled(st) ==
    LET marked == [st EXCEPT !.status = "failed"]
    IN  [marked EXCEPT !.error = [code |-> "CANCELLED",
                                  message |-> "Pipeline cancelled by user",
                                  stage |-> marked.status,
                                  retryable |-> FALSE]]

\* POST /cancel: loadState(), mark the state failed, saveState()
cancelPipeline ==
    /\ ~Gated
    /\ IF stored # Null
       THEN /\ saveState(Cancelled(stored))
            /\ cancelled' = (starts <= 1)
            /\ cancelPending' =
                  (starts <= 1 /\ (cancelPending \/ stored.status \notin Terminal))
       ELSE /\ pipelineState' = Null
            /\ UNCHANGED <<stored, cancelled, cancelPending>>
    /\ UNCHANGED <<pc, local, starts, hasApiKey, dbStatus, dbTrackCount, r2Key,
                   lookupFailed>>
    /\ UNCHANGED outsidePipeline

\* ------------------------------------------------------ executePipeline
\* what the handlers' history variables and the environment keep during a
\* step of the background execution
ExecFrame ==
    /\ UNCHANGED <<starts, hasApiKey, cancelled, cancelPending, lookupFailed>>
    /\ UNCHANGED outsidePipeline

\* an exception reaches the catch block: record the error, persist, end
Throw(e, message) ==
    /\ saveState(CatchError(pipelineState, message))
    /\ pc' = [pc EXCEPT ![e] = "done"]

\* await this.updateStatus(status, progress) and the synchronous start of
\* the stage that follows, up to its first await (what a stage reads there,
\* the resolved track or candidatePool[0], was written earlier in the same
\* turn)
UpdateStatusStep(e) ==
    /\ pc[e] \in {"updResolving", "updEnriching", "updGenerating", "updScoring",
                  "updCurating", "updExplaining", "updComplete"}
    /\ LET to == CASE pc[e] = "updResolving"  -> <<"resolving", 10, "search">>
                   [] pc[e] = "updEnriching"  -> <<"enriching", 25, "enrichJoin">>
                   [] pc[e] = "updGenerating" -> <<"generating", 40, "discover">>
                   [] pc[e] = "updScoring"    -> <<"scoring", 60, "score">>
                   [] pc[e] = "updCurating"   -> <<"curating", 75, "curate">>
                   [] pc[e] = "updExplaining" ->
                        <<"explaining", 90,
                          IF hasApiKey THEN "claude" ELSE "explainFallback">>
                   [] pc[e] = "updComplete"   -> <<"complete", 100, "setCompletedAt">>
       IN  /\ saveState(updateStatus(pipelineState, to[1], to[2]))
           /\ pc' = [pc EXCEPT ![e] = to[3]]
           \* generateExplanations: const playlist = finalPlaylist
           /\ local' = [local EXCEPT ![e] =
                          IF pc[e] = "updExplaining"
                          THEN pipelineState.finalPlaylist ELSE local[e]]
    /\ UNCHANGED <<dbStatus, dbTrackCount, r2Key>>
    /\ ExecFrame

\* resolveTrack: the answer of lastfmSearch
SearchResponse(e) ==
    /\ pc[e] = "search"
    /\ ~Gated
    /\ \E answer \in {"error", "empty", "found"} :
         CASE answer = "error" ->
                Throw(e, "Last.fm API error") /\ UNCHANGED local
           [] answer = "empty" ->
                Throw(e, "Could not find track") /\ UNCHANGED local
           [] answer = "found" ->
                /\ pc' = [pc EXCEPT ![e] = "trackInfo"]
                /\ UNCHANGED <<pipelineState, stored, local>>
    /\ UNCHANGED <<dbStatus, dbTrackCount, r2Key>>
    /\ ExecFrame

\* resolveTrack: the answer of lastfmGetTrackInfo; the resolved track is
\* written and persisted
TrackInfoResponse(e) ==
    /\ pc[e] = "trackInfo"
    /\ ~Gated
    /\ \E ok \in BOOLEAN :
         IF ok
         THEN /\ saveState([pipelineState EXCEPT !.resolvedTrack = TRUE])
              /\ pc' = [pc EXCEPT ![e] = "updEnriching"]
         ELSE Throw(e, "Last.fm API error")
    /\ UNCHANGED <<local, dbStatus, dbTrackCount, r2Key>>
    /\ ExecFrame

\* enrichTrack: Promise.all of track info, similar tracks and artist info;
\* lastfmGetSimilarTracks catches its own errors, the other two throw
EnrichResponse(e) ==
    /\ pc[e] = "enrichJoin"
    /\ ~Gated
    /\ \E infoOk \in BOOLEAN, artistOk \in BOOLEAN :
         IF infoOk /\ artistOk
         THEN /\ saveState([pipelineState EXCEPT !.candidatePool = 1])
              /\ pc' = [pc EXCEPT ![e] = "updGenerating"]
         ELSE Throw(e, "Last.fm API error")
    /\ UNCHANGED <<local, dbStatus, dbTrackCount, r2Key>>
    /\ ExecFrame

\* generateCandidates: every discovery lookup (lastfmGetSimilarTracks,
\* lastfmGetSimilarArtists, lastfmGetArtistTopTracks, lastfmGetTagTopTracks,
\* enrichCandidate) catches its own errors and answers with nothing; the
\* pool becomes the seed followed by the candidates found, at most 4 times
\* the playlist size
DiscoverResponse(e) ==
    /\ pc[e] = "discover"
    /\ ~Gated
    /\ \E found \in 0..MaxCand, failed \in BOOLEAN :
         /\ saveState([pipelineState EXCEPT
                         !.candidatePool =
                             1 + Min(found, 4 * pipelineState.playlistSize)])
         /\ lookupFailed' = (starts <= 1 /\ (lookupFailed \/ failed))
    /\ pc' = [pc EXCEPT ![e] = "updScoring"]
    /\ UNCHANGED <<local, dbStatus, dbTrackCount, r2Key>>
    /\ UNCHANGED <<starts, hasApiKey, cancelled, cancelPending>>
    /\ UNCHANGED outsidePipeline

\* scoreCandidates: scores candidatePool.slice(1), no await before the save
ScoreCandidates(e) ==
    /\ pc[e] = "score"
    /\ saveState([pipelineState EXCEPT
                    !.scoredCandidates =
                        IF pipelineState.candidatePool > 0
                        THEN pipelineState.candidatePool - 1 ELSE 0])
    /\ pc' = [pc EXCEPT ![e] = "updCurating"]
    /\ UNCHANGED <<local, dbStatus, dbTrackCount, r2Key>>
    /\ ExecFrame

\* curatePlaylist that moves on before its playlist has been written
CuratePlaylist_unsaved(e) ==
    /\ pc[e] = "curate"
    /\ saveState(pipelineState)
    /\ pc' = [pc EXCEPT ![e] = "updExplaining"]
    /\ UNCHANGED <<local, dbStatus, dbTrackCount, r2Key>>
    /\ ExecFrame

\* curatePlaylist: selected.slice(0, targetSize), reasons empty
CuratePlaylist(e) ==
    /\ pc[e] = "curate"
    /\ saveState([pipelineState EXCEPT
                    !.finalPlaylist = Min(pipelineState.scoredCandidates,
                                          pipelineState.playlistSize),
                    !.reasons = FALSE])
    /\ pc' = [pc EXCEPT ![e] = "updExplaining"]
    /\ UNCHANGED <<local, dbStatus, dbTrackCount, r2Key>>
    /\ ExecFrame

\* generateExplanations without an API key: fallback reasons, no await
ExplainFallback(e) ==
    /\ pc[e] = "explainFallback"
    /\ saveState([pipelineState EXCEPT !.finalPlaylist = local[e],
                                       !.reasons = TRUE])
    /\ pc' = [pc EXCEPT ![e] = "updComplete"]
    /\ UNCHANGED <<local, dbStatus, dbTrackCount, r2Key>>
    /\ ExecFrame

\* generateExplanations that lets a failure of callClaude reach the catch
\* block of executePipeline
ClaudeResponse_propagates(e) ==
    /\ pc[e] = "claude"
    /\ ~Gated
    /\ \/ /\ saveState([pipelineState EXCEPT !.finalPlaylist = local[e],
                                               !.reasons = TRUE])
          /\ pc' = [pc EXCEPT ![e] = "updComplete"]
       \/ Throw(e, "Claude API error")
    /\ UNCHANGED <<local, dbStatus, dbTrackCount, r2Key>>
    /\ ExecFrame

\* generateExplanations: the answer of callClaude; a failure is caught and
\* replaced by the fallback reasons
ClaudeResponse(e) ==
    /\ pc[e] = "claude"
    /\ ~Gated
    /\ saveState([pipelineState EXCEPT !.finalPlaylist = local[e],
                                       !.reasons = TRUE])
    /\ pc' = [pc EXCEPT ![e] = "updComplete"]
    /\ UNCHANGED <<local, dbStatus, dbTrackCount, r2Key>>
    /\ ExecFrame

\* this.pipelineState.completedAt = Date.now(); saveState(); then
\* saveToDatabase() up to its first await (it returns at once unless the
\* status is complete)
SetCompletedAt(e) ==
    /\ pc[e] = "setCompletedAt"
    /\ saveState([pipelineState EXCEPT !.completedAt = TRUE])
    /\ pc' = [pc EXCEPT ![e] =
                IF pipelineState.status = "complete" THEN "dbUpdate" ELSE "done"]
    \* the UPDATE is bound to finalPlaylist.length before it is awaited
    /\ local' = [local EXCEPT ![e] = pipelineState.finalPlaylist]
    /\ UNCHANGED <<dbStatus, dbTrackCount, r2Key>>
    /\ ExecFrame

\* saveToDatabase: UPDATE runs SET status = 'complete', ...
DbUpdateResponse(e) ==
    /\ pc[e] = "dbUpdate"
    /\ ~Gated
    /\ \E ok \in BOOLEAN :
         IF ok
         THEN /\ dbStatus' = "complete"
              /\ dbTrackCount' = local[e]
              /\ pc' = [pc EXCEPT ![e] = "r2Put"]
              /\ UNCHANGED <<pipelineState, stored>>
         ELSE Throw(e, "D1 error") /\ UNCHANGED <<dbStatus, dbTrackCount>>
    /\ UNCHANGED <<local, r2Key>>
    /\ ExecFrame

\* saveToDatabase: STORAGE.put(r2Key, ...)
R2PutResponse(e) ==
    /\ pc[e] = "r2Put"
    /\ ~Gated
    /\ \E ok \in BOOLEAN :
         IF ok
         THEN /\ pc' = [pc EXCEPT ![e] = "dbKey"]
              /\ UNCHANGED <<pipelineState, stored>>
         ELSE Throw(e, "R2 error")
    /\ UNCHANGED <<local, dbStatus, dbTrackCount, r2Key>>
    /\ ExecFrame

\* saveToDatabase: UPDATE runs SET r2_key = ?
DbKeyResponse(e) ==
    /\ pc[e] = "dbKey"
    /\ ~Gated
    /\ \E ok \in BOOLEAN :
         IF ok
         THEN /\ r2Key' = TRUE
              /\ pc' = [pc EXCEPT ![e] = "done"]
              /\ UNCHANGED <<pipelineState, stored>>
         ELSE Throw(e, "D1 error") /\ UNCHANGED r2Key
    /\ UNCHANGED <<local, dbStatus, dbTrackCount>>
    /\ ExecFrame

executePipeline(e) ==
    \/ UpdateStatusStep(e)
    \/ SearchResponse(e)
    \/ TrackInfoResponse(e)
    \/ EnrichResponse(e)
    \/ DiscoverResponse(e)
    \/ ScoreCandidates(e)
    \/ CuratePlaylist(e)
    \/ ExplainFallback(e)
    \/ ClaudeResponse(e)
    \/ SetCompletedAt(e)
    \/ DbUpdateResponse(e)
    \/ R2PutResponse(e)
    \/ DbKeyResponse(e)

Next ==
    \/ startPipeline
    \/ getStatus
    \/ cancelPipeline
    \/ \E e \in Execs : executePipeline(e)

Spec == Init /\ [][Next]_vars

\* =================================================================
\* RateLimiterDO and the adapters that call it.  Every caller reaches the one
\* limiter object idFromName('global'); its fetch handler awaits storage
\* operations only, so the input gate keeps a second request out until the
\* first is answered.  The handler is still modelled in two steps (the reads
\* up to `now`, then the refill, the decision and the writes) so that the
\* serialisation is a guard of the model and not a consequence of its grain.
\* =================================================================

\* a limiter whose requests are delivered while another is being handled
LimiterGated_open == FALSE

\* a request is between the handler's reads and its answer
LimiterGated == \E c \in Callers : cpc[c] = "decide"

\* the bucket has acquires left to answer
Budget(api) == answered[api] < configs[api].maxTokens + MaxExtra

\* buckets share no state (each has its own two storage keys), so a
\* behaviour follows the requests for one api name
OneBucket(api) ==
    \A a \in Apis \ {api} :
        answered[a] = 0 /\ \A c \in Callers : creq[c].api # a

\* storage.put(key, value)
Put(store, key, value) ==
    [k \in DOMAIN store \cup {key} |-> IF k = key THEN value ELSE store[k]]

\* Math.min(maxTokens, tokens + elapsed * refillRate) without the cap
Refilled_uncapped(api, tok, last, now) ==
    tok + (now - last) * configs[api].refillRate

\* Math.min(maxTokens, tokens + elapsed * refillRate), elapsed = (now - lastRefill) / 1000
Refilled(api, tok, last, now) ==
    Min(configs[api].maxTokens * MsPerSecond,
        tok + (now - last) * configs[api].refillRate)

\* retryAfter computed from the missing tokens alone
RetryAfter_noRate(api, tok) ==
    MsPerSecond - tok

\* Math.ceil((1 - tokens) / refillRate * 1000)
RetryAfter(api, tok) ==
    ((MsPerSecond - tok) + configs[api].refillRate - 1) \div configs[api].refillRate

\* the token periods of the buckets the adapters acquire from
Periods == {MsPerSecond \div configs[AdapterApi(k)].refillRate : k \in Adapters}

\* wall-clock time passes, by a token period at a time (Date.now() does not
\* advance inside the handler)
Tick ==
    /\ ~LimiterGated
    /\ \E d \in Periods :
         /\ clock + d <= Epoch + MaxElapsed
         /\ clock' = clock + d
    /\ UNCHANGED <<tokens, lastRefill, cpc, creq, answered, granted, sent, lastResp>>
    /\ UNCHANGED outsideLimiter

\* callers are interchangeable: a new request takes the first free one
FirstIdle(c) ==
    /\ cpc[c] = "idle"
    /\ \A d \in Callers : d < c => cpc[d] # "idle"

\* an adapter is asked for a request: lastfmRequest, LastfmService.request or
\* MusicBrainzService.request begins by asking the limiter
AdapterRequest(c) ==
    /\ FirstIdle(c)
    /\ \E kind \in Adapters :
         /\ OneBucket(AdapterApi(kind))
         /\ Budget(AdapterApi(kind))
         /\ creq' = [creq EXCEPT ![c] = [IdleReq EXCEPT !.kind = kind,
                                                        !.api = AdapterApi(kind)]]
    /\ cpc' = [cpc EXCEPT ![c] = "acquire"]
    /\ UNCHANGED <<clock, tokens, lastRefill, answered, granted, sent, lastResp>>
    /\ UNCHANGED outsideLimiter

\* a request to the worker's /ratelimit route, forwarded to the limiter
RateLimitRoute(c) ==
    /\ FirstIdle(c)
    /\ \E api \in Apis :
         /\ OneBucket(api)
         /\ Budget(api)
         /\ creq' = [creq EXCEPT ![c] = [IdleReq EXCEPT !.kind = "ratelimit",
                                                        !.api = api]]
    /\ cpc' = [cpc EXCEPT ![c] = "acquire"]
    /\ UNCHANGED <<clock, tokens, lastRefill, answered, granted, sent, lastResp>>
    /\ UNCHANGED outsideLimiter

\* RateLimiterDO.fetch up to `const now = Date.now()`
LimiterRead(c) ==
    /\ cpc[c] = "acquire"
    /\ ~LimiterGated
    /\ Budget(creq[c].api)
    /\ LET api == creq[c].api
       IN  creq' = [creq EXCEPT ![c] =
                [@ EXCEPT !.lastRefill =
                              IF api \in DOMAIN lastRefill /\ lastRefill[api] # 0
                              THEN lastRefill[api] ELSE clock,
                          !.tokens =
                              IF api \in DOMAIN tokens
                              THEN tokens[api]
                              ELSE configs[api].maxTokens * MsPerSecond,
                          !.now = clock]]
    /\ cpc' = [cpc EXCEPT ![c] = "decide"]
    /\ UNCHANGED <<clock, tokens, lastRefill, answered, granted, sent, lastResp>>
    /\ UNCHANGED outsideLimiter

\* the request of caller c once the limiter's handler has returned (its
\* locals are gone)
Answered(c) ==
    [creq[c] EXCEPT !.tokens = 0, !.lastRefill = 0, !.now = 0]

\* what the caller does with the limiter's answer: the /ratelimit route
\* returns it; an adapter sends at once when allowed and otherwise sleeps
\* retryAfter || DefaultSleep and sends then
Continue(c, allowed, retryAfter) ==
    IF creq[c].kind = "ratelimit"
    THEN /\ cpc' = [cpc EXCEPT ![c] = "idle"]
         /\ creq' = [creq EXCEPT ![c] = IdleReq]
    ELSE IF allowed
    THEN /\ cpc' = [cpc EXCEPT ![c] = "send"]
         /\ creq' = [creq EXCEPT ![c] = Answered(c)]
    ELSE /\ cpc' = [cpc EXCEPT ![c] = "sleep"]
         /\ creq' = [creq EXCEPT ![c] =
                [Answered(c) EXCEPT
                    !.wake = clock + (IF retryAfter = 0
                                      THEN DefaultSleep(creq[c].kind)
                                      ELSE retryAfter),
                    !.next = "send"]]

\* RateLimiterDO.fetch from the refill to the response
LimiterAnswer(c) ==
    /\ cpc[c] = "decide"
    /\ LET r == creq[c]
           api == r.api
           t == Refilled(api, r.tokens, r.lastRefill, r.now)
       IN  /\ answered' = [answered EXCEPT ![api] = @ + 1]
           /\ IF t >= MsPerSecond
              THEN /\ tokens' = Put(tokens, api, t - MsPerSecond)
                   /\ lastRefill' = Put(lastRefill, api, r.now)
                   /\ granted' = [granted EXCEPT ![api] = @ + 1]
                   /\ lastResp' = [lastResp EXCEPT ![api] =
                          [allowed |-> TRUE, retryAfter |-> 0, at |-> r.now]]
                   /\ Continue(c, TRUE, 0)
              ELSE /\ UNCHANGED <<tokens, lastRefill, granted>>
                   /\ lastResp' = [lastResp EXCEPT ![api] =
                          [allowed |-> FALSE, retryAfter |-> RetryAfter(api, t),
                           at |-> r.now]]
                   /\ Continue(c, FALSE, RetryAfter(api, t))
    /\ UNCHANGED <<clock, sent>>
    /\ UNCHANGED outsideLimiter

\* a setTimeout of the adapter fires
Wake(c) ==
    /\ cpc[c] = "sleep"
    /\ clock >= creq[c].wake
    /\ cpc' = [cpc EXCEPT ![c] = creq[c].next]
    /\ creq' = [creq EXCEPT ![c] = [@ EXCEPT !.wake = 0, !.next = "idle"]]
    /\ UNCHANGED <<clock, tokens, lastRefill, answered, granted, sent, lastResp>>
    /\ UNCHANGED outsideLimiter

\* fetch(url): the request goes to the external API
Send(c) ==
    /\ cpc[c] = "send"
    /\ sent' = [sent EXCEPT ![creq[c].api] = @ + 1]
    /\ cpc' = [cpc EXCEPT ![c] = "await"]
    /\ UNCHANGED <<clock, tokens, lastRefill, creq, answered, granted, lastResp>>
    /\ UNCHANGED outsideLimiter

\* the external API answers: ok returns the body; the adapter's throttling
\* status makes it sleep Backoff and call itself again; any other status is
\* thrown
Response(c) ==
    /\ cpc[c] = "await"
    /\ \E status \in Statuses :
         IF status # 200 /\ status = ThrottleStatus(creq[c].kind)
         THEN /\ cpc' = [cpc EXCEPT ![c] = "sleep"]
              /\ creq' = [creq EXCEPT ![c] =
                     [@ EXCEPT !.wake = clock + Backoff(creq[c].kind),
                               !.next = "acquire",
                               !.retries = @ + 1]]
         ELSE /\ cpc' = [cpc EXCEPT ![c] = "idle"]
              /\ creq' = [creq EXCEPT ![c] = IdleReq]
    /\ UNCHANGED <<clock, tokens, lastRefill, answered, granted, sent, lastResp>>
    /\ UNCHANGED outsideLimiter

\* the limiter under requests to the /ratelimit route
LimiterNext ==
    \/ Tick
    \/ \E c \in Callers : RateLimitRoute(c)
    \/ \E c \in Callers : LimiterRead(c)
    \/ \E c \in Callers : LimiterAnswer(c)

\* the limiter under requests of the adapters
AdapterNext ==
    \/ Tick
    \/ \E c \in Callers : AdapterRequest(c)
    \/ \E c \in Callers : LimiterRead(c)
    \/ \E c \in Callers : LimiterAnswer(c)
    \/ \E c \in Callers : Wake(c)
    \/ \E c \in Callers : Send(c)
    \/ \E c \in Callers : Response(c)

\* the limiter and the generator do not read the pipeline's environment
ComponentInit == Init /\ hasApiKey

LimiterSpec == ComponentInit /\ [][LimiterNext]_vars

AdapterSpec == ComponentInit /\ [][AdapterNext]_vars

\* =================================================================
\* generateCandidates, one step per loop iteration.  The three strategies
\* differ in the Last.fm method that returns the list; a list that fails to
\* load is the empty list (the helpers catch and return []).
\* =================================================================

\* the Map key of a track: mbid || title
Key(track) == IF track.mbid # "" THEN track.mbid ELSE track.title

\* candidates.has(key)
Has(cands, key) == \E i \in 1..Len(cands) : Key(cands[i]) = key

\* candidates.set(key, track): an existing key keeps its place
MapSet(cands, track) ==
    IF Has(cands, Key(track))
    THEN [i \in 1..Len(cands) |->
             IF Key(cands[i]) = Key(track) THEN track ELSE cands[i]]
    ELSE Append(cands, track)

\* enrichCandidate for an answered track.getInfo
enrichCandidate(track, info) ==
    [mbid |-> IF info.mbid # "" THEN info.mbid ELSE track.mbid,
     title |-> IF info.name # "" THEN info.name ELSE track.title]

\* a loop that never breaks
TargetReached_never(cands, size) == FALSE

\* candidates.size >= candidateTarget (candidateTarget = targetSize * 4)
TargetReached(cands, size) == Len(cands) >= size * 4

\* generateCandidates is entered: seed, targetSize and an empty Map
generateCandidates_begin ==
    /\ gpc = "idle"
    /\ \E s \in Tracks, tags \in BOOLEAN, size \in PlaylistSizes :
         /\ seed' = s
         /\ seedHasTags' = tags
         /\ targetSize' = size
    /\ candidates' = << >>
    /\ gpc' = "similarTracks"
    /\ UNCHANGED <<candidatePool, scoredPool>>
    /\ UNCHANGED outsideGenerator

\* a loop iteration without the break at candidates.size >= candidateTarget
generateCandidates_track_noBreak ==
    /\ gpc \in {"similarTracks", "artistTopTracks", "tagTopTracks"}
    /\ \E track \in Tracks, info \in Infos :
         candidates' = IF ~Has(candidates, Key(track)) /\ ~info.failed
                       THEN MapSet(candidates, enrichCandidate(track, info))
                       ELSE candidates
    /\ UNCHANGED <<gpc, seed, seedHasTags, targetSize, candidatePool, scoredPool>>
    /\ UNCHANGED outsideGenerator

\* one iteration of a strategy's loop over the tracks of its list
generateCandidates_track ==
    /\ gpc \in {"similarTracks", "artistTopTracks", "tagTopTracks"}
    /\ \E track \in Tracks, info \in Infos :
         LET cands == IF ~Has(candidates, Key(track)) /\ ~info.failed
                      THEN MapSet(candidates, enrichCandidate(track, info))
                      ELSE candidates
         IN  /\ candidates' = cands
             /\ gpc' = IF TargetReached(cands, targetSize) THEN "save" ELSE gpc
    /\ UNCHANGED <<seed, seedHasTags, targetSize, candidatePool, scoredPool>>
    /\ UNCHANGED outsideGenerator

\* the strategy's list is exhausted: the next strategy runs if the target
\* is not reached (the third also needs a tag of the seed)
generateCandidates_next ==
    /\ gpc \in {"similarTracks", "artistTopTracks", "tagTopTracks"}
    /\ gpc' = CASE TargetReached(candidates, targetSize) -> "save"
                [] gpc = "similarTracks" -> "artistTopTracks"
                [] gpc = "artistTopTracks" /\ seedHasTags -> "tagTopTracks"
                [] OTHER -> "save"
    /\ UNCHANGED <<seed, seedHasTags, targetSize, candidates, candidatePool,
                   scoredPool>>
    /\ UNCHANGED outsideGenerator

\* candidatePool = [seed, ...candidates.values()]; saveState()
generateCandidates_save ==
    /\ gpc = "save"
    /\ candidatePool' = <<seed>> \o candidates
    /\ gpc' = "done"
    /\ UNCHANGED <<seed, seedHasTags, targetSize, candidates, scoredPool>>
    /\ UNCHANGED outsideGenerator

\* candidatePool.slice(1)
Slice1(pool) == IF Len(pool) = 0 THEN << >> ELSE Tail(pool)

\* scoreCandidates, as far as the identity of the tracks goes: every track of
\* candidatePool.slice(1) is scored and pushed (the sort reorders them)
scoreCandidates_tracks ==
    /\ gpc = "done"
    /\ scoredPool' = Slice1(candidatePool)
    /\ gpc' = "scored"
    /\ UNCHANGED <<seed, seedHasTags, targetSize, candidates, candidatePool>>
    /\ UNCHANGED outsideGenerator

GeneratorNext ==
    \/ generateCandidates_begin
    \/ generateCandidates_track
    \/ generateCandidates_next
    \/ generateCandidates_save
    \/ scoreCandidates_tracks

GeneratorSpec == ComponentInit /\ [][GeneratorNext]_vars

\* =================================================================
\* The scoring functions.  Scores are kept in thousandths (1.0 = 1000) and
\* overall in units of 0.0001 (10.0 = 100000); quotients are rounded down to
\* the unit.
\* =================================================================

\* String.prototype.toLowerCase on the names in use
toLowerCase(s) ==
    CASE s = "Rock" -> "rock"
      [] s = "A" -> "a"
      [] s = "B" -> "b"
      [] OTHER -> s

LowerSet(names) == {toLowerCase(n) : n \in names}

\* calculateTagOverlap
calculateTagOverlap(seedTags, candidateTags) ==
    IF seedTags = {} \/ candidateTags = {}
    THEN 0
    ELSE LET seedSet == LowerSet(seedTags)
             candidateSet == LowerSet(candidateTags)
             intersection == Cardinality(seedSet \cap candidateSet)
             union == Cardinality(seedSet \cup candidateSet)
         IN  IF union > 0 THEN (1000 * intersection) \div union ELSE 0

\* calculateArtistSimilarity
calculateArtistSimilarity(in) ==
    CASE toLowerCase(in.seedArtist) = toLowerCase(in.candArtist) -> 1000
      [] toLowerCase(in.candArtist) \in LowerSet(in.seedSimilar) -> 800
      [] toLowerCase(in.seedArtist) \in LowerSet(in.candSimilar) -> 600
      [] OTHER -> 0

\* Math.exp(-(diff * diff) / 200) for the year differences in use, rounded
\* to the thousandth
Gaussian(diff) ==
    CASE diff = 0 -> 1000
      [] diff = 5 -> 882
      [] diff = 10 -> 606
      [] OTHER -> 0

\* calculateTemporalProximity (a year of 0 stands for undefined)
calculateTemporalProximity(seedYear, candidateYear, eraRange) ==
    IF /\ eraRange # << >>
       /\ candidateYear # 0
       /\ (candidateYear < eraRange[1] \/ candidateYear > eraRange[2])
    THEN 200
    ELSE IF seedYear = 0 \/ candidateYear = 0
    THEN 500
    ELSE Gaussian(IF seedYear > candidateYear
                  THEN seedYear - candidateYear
                  ELSE candidateYear - seedYear)

\* the integer part of Math.log10(n), n >= 1; the playcounts in use make
\* log10(playcount + 1) an integer to the thousandth
RECURSIVE Log10(_)
Log10(n) == IF n < 10 THEN 0 ELSE 1 + Log10(n \div 10)

\* candidate.playcount || 0
PlaycountOrZero(in) == IF in.playcountKnown THEN in.playcount ELSE 0

\* calculatePopularityFit with normalizedPop left uncapped
calculatePopularityFit_uncapped(in) ==
    LET normalizedPop == (1000 * Log10(PlaycountOrZero(in) + 1)) \div 8
    IN  CASE in.bias = "popular" -> normalizedPop
          [] in.bias = "deep-cuts" -> 300 + ((1000 - normalizedPop) * 4) \div 10
          [] in.bias = "hidden-gems" ->
                IF normalizedPop < 300 THEN 1000 - normalizedPop ELSE 200
          [] OTHER -> 500

\* calculatePopularityFit
calculatePopularityFit(in) ==
    LET normalizedPop ==
            Min(1000, (1000 * Log10(PlaycountOrZero(in) + 1)) \div 8)
    IN  CASE in.bias = "popular" -> normalizedPop
          [] in.bias = "deep-cuts" -> 300 + ((1000 - normalizedPop) * 4) \div 10
          [] in.bias = "hidden-gems" ->
                IF normalizedPop < 300 THEN 1000 - normalizedPop ELSE 200
          [] OTHER -> 500

\* categorizeByPopularity
categorizeByPopularity(in) ==
    CASE PlaycountOrZero(in) = 0 -> "deep-cut"
      [] PlaycountOrZero(in) > 1000000 -> "popular"
      [] PlaycountOrZero(in) > 100000 -> "deep-cut"
      [] OTHER -> "hidden-gem"

\* the scores and the category scoreCandidates gives one candidate
ScoreOf(in) ==
    LET tagOverlap == calculateTagOverlap(in.seedTags, in.candTags)
        artistSimilarity == calculateArtistSimilarity(in)
        temporalProximity ==
            calculateTemporalProximity(in.seedYear, in.candYear, in.eraRange)
        vectorSimilarity == 500
        popularityFit == calculatePopularityFit(in)
    IN  [tagOverlap |-> tagOverlap,
         artistSimilarity |-> artistSimilarity,
         temporalProximity |-> temporalProximity,
         vectorSimilarity |-> vectorSimilarity,
         popularityFit |-> popularityFit,
         overall |-> tagOverlap * 25 + artistSimilarity * 20
                       + temporalProximity * 15 + vectorSimilarity * 25
                       + popularityFit * 15,
         category |-> categorizeByPopularity(in)]

\* one iteration of the loop of scoreCandidates
scoreCandidates_score ==
    /\ spc = "idle"
    /\ \E in \in ScoreInputs :
         /\ in.playcountKnown \/ in.playcount = 0
         /\ scoreIn' = in
         /\ scoreOut' = ScoreOf(in)
    /\ spc' = "scored"
    /\ UNCHANGED fallbackReason
    /\ UNCHANGED outsideScorer

\* generateFallbackReason(seed, track): the tags seed and track share are
\* those with the same name (===); which of the three sentences is returned
FallbackSentence(in, scores) ==
    LET sharedTags == {t \in in.seedTags : \E tt \in in.candTags : tt = t}
    IN  CASE sharedTags # {} -> "sharedTags"
          [] scores.artistSimilarity > 500 -> "artistOrbit"
          [] OTHER -> "mood"

\* generateExplanations takes the fallback reason for the scored track
generateFallbackReason_track ==
    /\ spc = "scored"
    /\ fallbackReason' = FallbackSentence(scoreIn, scoreOut)
    /\ spc' = "explained"
    /\ UNCHANGED <<scoreIn, scoreOut>>
    /\ UNCHANGED outsideScorer

ScorerNext ==
    \/ scoreCandidates_score
    \/ generateFallbackReason_track

ScorerSpec == ComponentInit /\ [][ScorerNext]_vars

\* =================================================================
\* scoreCandidates' list and sort, curatePlaylist and
\* generateExplanations.  A scored track is its discovery index (its place
\* in candidatePool.slice(1), which also stands for its Map key mbid ||
\* title: the pool's candidates have distinct keys), its overall score and
\* its category.
\* =================================================================

\* the first n elements: seq.slice(0, n)
Take(seq, n) == SubSeq(seq, 1, Min(n, Len(seq)))

\* seq.filter(c => c.category === category)
OfCategory(seq, category) == SelectSeq(seq, LAMBDA c : c.category = category)

\* an insertion that puts a track before the tracks of equal overall
Insert_beforeTies(sorted, x) ==
    LET ahead == SelectSeq(sorted, LAMBDA y : y.overall > x.overall)
        behind == SelectSeq(sorted, LAMBDA y : y.overall <= x.overall)
    IN  ahead \o <<x>> \o behind

\* Array.prototype.sort is stable: a track goes behind every track whose
\* overall is not smaller (comparator b.scores.overall - a.scores.overall)
Insert(sorted, x) ==
    LET ahead == SelectSeq(sorted, LAMBDA y : y.overall >= x.overall)
        behind == SelectSeq(sorted, LAMBDA y : y.overall < x.overall)
    IN  ahead \o <<x>> \o behind

\* scored.sort((a, b) => b.scores.overall - a.scores.overall)
RECURSIVE SortByOverall(_)
SortByOverall(seq) ==
    IF seq = << >>
    THEN << >>
    ELSE Insert(SortByOverall(SubSeq(seq, 1, Len(seq) - 1)), seq[Len(seq)])

\* quotas of curatePlaylist with the hidden-gem quota rounded down
Quota_floor(category, size) ==
    CASE category = "popular" -> (size * 35) \div 100
      [] category = "deep-cut" -> size \div 2
      [] OTHER -> (size * 15) \div 100

\* quotas of curatePlaylist: Math.floor(targetSize * 0.35),
\* Math.floor(targetSize * 0.5), Math.ceil(targetSize * 0.15)
Quota(category, size) ==
    CASE category = "popular" -> (size * 35) \div 100
      [] category = "deep-cut" -> size \div 2
      [] OTHER -> (size * 15 + 99) \div 100

\* the quota loop: the first Quota tracks of each category, in the order of
\* the keys of `quotas`
QuotaPicks(cands, size) ==
    Take(OfCategory(cands, "popular"), Quota("popular", size))
      \o Take(OfCategory(cands, "deep-cut"), Quota("deep-cut", size))
      \o Take(OfCategory(cands, "hidden-gem"), Quota("hidden-gem", size))

\* the fill that takes no notice of what is already selected
Selected_refill(cands, size) ==
    LET picks == QuotaPicks(cands, size)
    IN  picks \o Take(cands, IF Len(picks) < size THEN size - Len(picks) ELSE 0)

\* selected after the fill loop: the tracks not yet selected, in list order,
\* while selected.length < targetSize
Selected(cands, size) ==
    LET picks == QuotaPicks(cands, size)
        selectedSet == {picks[i].id : i \in 1..Len(picks)}
        remaining == SelectSeq(cands, LAMBDA c : c.id \notin selectedSet)
    IN  picks \o Take(remaining, IF Len(picks) < size THEN size - Len(picks) ELSE 0)

\* assignFlowRole(index, total): position = index / (total - 1)
assignFlowRole(index, total) ==
    CASE index = 0 -> "opener"
      [] index = total - 1 -> "closer"
      [] 4 * index < total - 1 -> "builder"
      [] 2 * index < total - 1 -> "peak"
      [] 4 * index < 3 * (total - 1) -> "valley"
      [] OTHER -> "transition"

\* a playlist numbered from 0
Playlist_fromZero(cands, size) ==
    LET chosen == Take(Selected(cands, size), size)
    IN  [i \in 1..Len(chosen) |->
            [id |-> chosen[i].id, overall |-> chosen[i].overall,
             category |-> chosen[i].category, position |-> i - 1,
             reason |-> "", flowRole |-> assignFlowRole(i - 1, size)]]

\* selected.slice(0, targetSize).map((track, index) => ...)
Playlist(cands, size) ==
    LET chosen == Take(Selected(cands, size), size)
    IN  [i \in 1..Len(chosen) |->
            [id |-> chosen[i].id, overall |-> chosen[i].overall,
             category |-> chosen[i].category, position |-> i,
             reason |-> "", flowRole |-> assignFlowRole(i - 1, size)]]

\* generateFallbackReason: one of three templates, each a non-empty string
generateFallbackReason == "template"

\* a reason taken from the LLM's array as it is
Reason_unchecked(explanations, index) ==
    IF index <= Len(explanations) THEN explanations[index] ELSE ""

\* explanations[index] || generateFallbackReason(seed, track)
Reason(explanations, index) ==
    IF index <= Len(explanations) /\ explanations[index] # ""
    THEN explanations[index]
    ELSE generateFallbackReason

\* the arrays callClaude returns ([] when the text holds no parseable array)
Answers == UNION {[1..n -> AnswerEntries] : n \in 0..MaxAnswer}

\* one candidate is scored and pushed
scoreCandidates_push ==
    /\ lpc = "scoring"
    /\ Len(scored) < MaxScored
    /\ \E overall \in Overalls, category \in Categories :
         scored' = Append(scored, [id |-> Len(scored) + 1, overall |-> overall,
                                   category |-> category])
    /\ UNCHANGED <<lpc, playlistTarget, finalPlaylist>>
    /\ UNCHANGED outsidePlaylist

\* the loop is over: sort and store
scoreCandidates_sort ==
    /\ lpc = "scoring"
    /\ scored' = SortByOverall(scored)
    /\ lpc' = "curating"
    /\ UNCHANGED <<playlistTarget, finalPlaylist>>
    /\ UNCHANGED outsidePlaylist

\* curatePlaylist
curatePlaylist ==
    /\ lpc = "curating"
    /\ \E size \in 1..MaxTarget :
         /\ playlistTarget' = size
         /\ finalPlaylist' = Playlist(scored, size)
    /\ lpc' = "explaining"
    /\ UNCHANGED scored
    /\ UNCHANGED outsidePlaylist

\* generateExplanations that builds the playlist from callClaude's array:
\* a track without an entry is dropped
generateExplanations_overAnswers ==
    /\ lpc = "explaining"
    /\ \E explained \in BOOLEAN, explanations \in Answers :
         /\ explained \/ explanations = << >>
         /\ finalPlaylist' =
              IF explained
              THEN [i \in 1..Min(Len(finalPlaylist), Len(explanations)) |->
                      [finalPlaylist[i] EXCEPT !.reason = Reason(explanations, i)]]
              ELSE [i \in 1..Len(finalPlaylist) |->
                      [finalPlaylist[i] EXCEPT !.reason = generateFallbackReason]]
    /\ lpc' = "complete"
    /\ UNCHANGED <<scored, playlistTarget>>
    /\ UNCHANGED outsidePlaylist

\* generateExplanations: without an API key, and when callClaude throws,
\* every reason is the fallback; otherwise callClaude's array is used
generateExplanations ==
    /\ lpc = "explaining"
    /\ \E explained \in BOOLEAN, explanations \in Answers :
         /\ explained \/ explanations = << >>
         /\ finalPlaylist' =
              [i \in 1..Len(finalPlaylist) |->
                  [finalPlaylist[i] EXCEPT !.reason =
                      IF explained THEN Reason(explanations, i)
                      ELSE generateFallbackReason]]
    /\ lpc' = "complete"
    /\ UNCHANGED <<scored, playlistTarget>>
    /\ UNCHANGED outsidePlaylist

PlaylistNext ==
    \/ scoreCandidates_push
    \/ scoreCandidates_sort
    \/ curatePlaylist
    \/ generateExplanations

PlaylistSpec == ComponentInit /\ [][PlaylistNext]_vars





\* =================================================================
\* Properties of the pipeline state machine (spec 4.9, 5, 7, 8)
\* =================================================================

\* the persisted <<status, progress>>
Pair(st) == <<st.status, st.progress>>

\* the states and the progress values the specification associates with them
SpecPairs ==
    <<<<"pending", 0>>, <<"resolving", 10>>, <<"enriching", 25>>,
      <<"generating", 40>>, <<"scoring", 60>>, <<"curating", 75>>,
      <<"explaining", 90>>, <<"complete", 100>>>>

\* position of a status in the stage order; failed is terminal and ranks last
Rank(status) ==
    IF status = "failed" THEN Len(StageOrder) + 1
    ELSE CHOOSE i \in 1..Len(StageOrder) : StageOrder[i] = status

\* executions of the pipeline that are under way when pc is p
Running(p) == {e \in Execs : p[e] \notin {"idle", "done"}}

\* C1: the persisted status changes only from a state to its immediate
\* successor in the stage order, or from a non-terminal state to failed;
\* stated for a run that received a single /start.
C1_StrictForwardOrder ==
    [][(starts' <= 1 /\ stored # Null /\ stored'.status # stored.status) =>
          \/ /\ stored.status \notin Terminal
             /\ stored'.status = "failed"
          \/ /\ stored.status # "failed"
             /\ stored'.status # "failed"
             /\ Rank(stored'.status) = Rank(stored.status) + 1]_vars

\* C2: complete and failed are terminal: once the persisted status is
\* complete or failed no later event changes it; stated for a run that
\* received a single /start.
C2_TerminalIsFinal ==
    [][(starts' <= 1 /\ stored # Null /\ stored.status \in Terminal) =>
          stored'.status = stored.status]_vars

\* C3: after a /cancel of a non-terminal run, the next /status response (the
\* body built from the persisted state once the input gate is open) shows
\* failed with error code CANCELLED and retryable = false; stated for a run
\* that received a single /start.
C3_CancelObservedOnNextPoll ==
    (cancelPending /\ ~Gated /\ starts <= 1) =>
        LET body == StatusBody(stored)
        IN  /\ body.status = "failed"
            /\ body.error # Null
            /\ body.error.code = "CANCELLED"
            /\ body.error.retryable = FALSE

\* C4: once a /cancel has marked the run failed, the background execution
\* writes nothing more: the persisted state stays exactly as the cancel left
\* it; stated for a run that received a single /start.
C4_InFlightResultDiscarded ==
    [][(starts' <= 1 /\ stored # Null /\ stored.status = "failed"
        /\ stored.error.code = "CANCELLED") =>
          stored' = stored]_vars

\* C5: within a run the persisted progress never decreases, and the status a
\* /status request reads (the persisted status) never moves backwards in
\* the stage order, whatever the interleaving of /start, stage steps,
\* /cancel and /status.
C5_MonotoneProgressAndStatus ==
    [][stored # Null =>
          /\ stored'.progress >= stored.progress
          /\ Rank(stored'.status) >= Rank(stored.status)]_vars

\* C6: for a run that succeeds (started once, never cancelled) every
\* persisted change of <<status, progress>> is the step from one pair of
\* pending=0, resolving=10, enriching=25, generating=40, scoring=60,
\* curating=75, explaining=90, complete=100 to the next one, starting at
\* pending=0: the progress values persisted up to complete are exactly
\* 0, 10, 25, 40, 60, 75, 90, 100, each together with its state.  The only
\* other persisted change is the one to failed, which ends the sequence.
C6_ProgressSequence ==
    [][(starts' = 1 /\ ~cancelled') =>
          IF stored = Null
          THEN Pair(stored') = SpecPairs[1]
          ELSE \/ Pair(stored') = Pair(stored)
               \/ \E i \in 1..(Len(SpecPairs) - 1) :
                    /\ Pair(stored) = SpecPairs[i]
                    /\ Pair(stored') = SpecPairs[i + 1]
               \/ /\ stored'.status = "failed"
                  /\ stored'.progress = stored.progress]_vars

\* C6 witness: a run started once and never cancelled has been persisted as
\* complete with progress 100 and its results written to the database
C6_Witness ==
    /\ starts = 1
    /\ ~cancelled
    /\ stored # Null
    /\ Pair(stored) = <<"complete", 100>>
    /\ dbStatus = "complete"

\* C7: a failed run never reaches 100: no persisted state is failed with
\* progress 100, and a run marked failed never shows progress 100 later;
\* stated for a run that received a single /start and no /cancel.
C7_FailedNeverAt100 ==
    [][(starts' <= 1 /\ ~cancelled' /\ stored' # Null) =>
          /\ stored'.status = "failed" => stored'.progress # 100
          /\ (stored # Null /\ stored.status = "failed") =>
                stored'.progress # 100]_vars

\* C8: a second /start for a run whose state exists neither resets the
\* state nor launches another execution, so at most one execution of the
\* pipeline is under way.
C8_NoDoubleStart ==
    [][/\ (starts' # starts /\ stored # Null) => (stored' = stored /\ pc' = pc)
       /\ Cardinality(Running(pc')) <= 1]_vars

\* C9: whenever the run is failed, by a stage error or by a /cancel, the
\* recorded error's stage is the non-terminal stage the run was in, never
\* failed or complete; stated for a run that received a single /start.
C9_ErrorStageIsNonTerminal ==
    (starts <= 1 /\ stored # Null /\ stored.status = "failed") =>
        stored.error.stage \notin Terminal

\* C10: a resolver that finds no result fails the run with retryable =
\* false, a network or upstream API error fails it with retryable = true;
\* stated for a run that received a single /start and no /cancel.
C10_RetryableByErrorKind ==
    (starts <= 1 /\ ~cancelled /\ stored # Null /\ stored.status = "failed") =>
        /\ stored.error.message = "Could not find track" =>
              stored.error.retryable = FALSE
        /\ stored.error.message = "Last.fm API error" =>
              stored.error.retryable = TRUE

C17_EnrichFailureAbsorbed ==
    (starts <= 1 /\ ~cancelled /\ stored # Null /\ stored.status = "failed") =>
        stored.error.stage # "enriching"

\* C18: outside the enriching stage a failed upstream lookup is not
\* absorbed: once a discovery lookup of the generating stage has failed the
\* run is failed; stated for a run that received a single /start.
C18_DiscoveryFailureFailsRun ==
    (starts <= 1 /\ lookupFailed) =>
        (stored.status = "failed" /\ stored.error # Null)

\* ------------------------------------------------------------------
\* the bucket's contents as the handler reads them
StoredTokens(a) ==
    IF a \in DOMAIN tokens THEN tokens[a] ELSE configs[a].maxTokens * MsPerSecond

StoredLastRefill(a) ==
    IF a \in DOMAIN lastRefill THEN lastRefill[a] ELSE clock

\* C12: for every bucket the stored token count stays between 0 and the
\* bucket's capacity, and each allowed acquire stores the refilled count
\* (the stored count plus rate x elapsed time, capped at the capacity)
\* minus exactly one token.
C12_TokensWithinCapacity ==
    /\ [](\A a \in DOMAIN tokens :
            /\ tokens[a] >= 0
            /\ tokens[a] <= configs[a].maxTokens * MsPerSecond)
    /\ [][\A a \in Apis :
            granted'[a] # granted[a] =>
                /\ granted'[a] = granted[a] + 1
                /\ tokens'[a] =
                     Min(configs[a].maxTokens * MsPerSecond,
                         StoredTokens(a)
                           + (clock - StoredLastRefill(a)) * configs[a].refillRate)
                       - MsPerSecond]_vars

\* a bucket that was drawn from, refilled over a second up to its cap, and
\* drawn from again
C12_Witness ==
    /\ "lastfm" \in DOMAIN tokens
    /\ granted["lastfm"] = 3
    /\ lastRefill["lastfm"] = Epoch + MsPerSecond
    /\ tokens["lastfm"] = (configs["lastfm"].maxTokens - 1) * MsPerSecond

\* C13: a bucket of capacity C and rate R that starts full allows C acquires
\* made at the same instant and denies every further acquire at that instant
\* with retryAfter = 1000/R ms; an acquire made retryAfter (or more) after a
\* denial, with no grant in between, is allowed.
C13_BurstThenRetryAfter ==
    /\ [](clock = Epoch =>
            \A a \in Apis :
                /\ granted[a] = Min(answered[a], configs[a].maxTokens)
                /\ answered[a] > configs[a].maxTokens =>
                     lastResp[a] =
                        [allowed |-> FALSE,
                         retryAfter |-> MsPerSecond \div configs[a].refillRate,
                         at |-> Epoch])
    /\ [][\A a \in Apis :
            (/\ answered'[a] # answered[a]
             /\ ~lastResp[a].allowed
             /\ lastResp'[a].at >= lastResp[a].at + lastResp[a].retryAfter)
                => lastResp'[a].allowed]_vars

\* the lastfm bucket (C = 5, R = 5) has allowed five acquires, denied one,
\* and allowed the next 200 ms after Init
C13_Witness ==
    /\ answered["lastfm"] = configs["lastfm"].maxTokens + 2
    /\ granted["lastfm"] = configs["lastfm"].maxTokens + 1
    /\ lastResp["lastfm"] =
          [allowed |-> TRUE, retryAfter |-> 0,
           at |-> Epoch + MsPerSecond \div configs["lastfm"].refillRate]

\* C14: whatever the interleaving of the callers of a bucket, the acquires
\* allowed so far never exceed the initial capacity plus the tokens refilled
\* over the elapsed time.
C14_NoTokenGrantedTwice ==
    \A a \in Apis :
        granted[a] * MsPerSecond
            <= configs[a].maxTokens * MsPerSecond
                 + (clock - Epoch) * configs[a].refillRate

\* two callers are at the same bucket together, one inside the handler and
\* one waiting for it, after the bucket's whole capacity has been granted
C14_Witness ==
    \E c1, c2 \in Callers :
        /\ c1 # c2
        /\ cpc[c1] = "decide"
        /\ cpc[c2] = "acquire"
        /\ creq[c1].api = creq[c2].api
        /\ granted[creq[c1].api] = configs[creq[c1].api].maxTokens

\* C15: the requests sent to an external API never exceed the acquires the
\* limiter allowed for that API.
C15_SentWithinGranted ==
    \A a \in Apis : sent[a] <= granted[a]

\* C16: an adapter retries a throttled request at most once.
C16_RetriedAtMostOnce ==
    \A c \in Callers : creq[c].retries <= 1

\* ------------------------------------------------------------------
\* two pool entries that the dedup rule calls the same track
SameTrack(x, y) ==
    \/ x.mbid # "" /\ x.mbid = y.mbid
    \/ x.mbid = "" /\ y.mbid = "" /\ x.title = y.title

\* C19: in the candidate pool no two entries, the seed at index 1 included,
\* share a non-empty id, and entries with an empty id have different titles.
C19_PoolEntriesUnique ==
    \A i, j \in 1..Len(candidatePool) :
        i # j => ~SameTrack(candidatePool[i], candidatePool[j])

\* C20 as stated: the pool generateCandidates saves has at most
\* targetSize x 4 entries.
C20_PoolWithinTarget ==
    gpc = "done" => Len(candidatePool) <= targetSize * 4

\* C20: the pool generateCandidates saves has at most targetSize x 4
\* candidates after the seed, that is at most targetSize x 4 + 1 entries.
C20_CandidatesWithinTarget ==
    /\ Len(candidates) <= targetSize * 4
    /\ gpc = "done" => Len(candidatePool) <= targetSize * 4 + 1

\* a saved pool that holds the seed and targetSize x 4 candidates
C20_Witness ==
    /\ gpc = "done"
    /\ Len(candidatePool) = targetSize * 4 + 1

\* C21: no track with the seed's identity (same id, or same title when both
\* ids are empty) is among the tracks scoreCandidates scores.
C21_SeedNotAmongScored ==
    gpc = "scored" =>
        \A i \in 1..Len(scoredPool) : ~SameTrack(seed, scoredPool[i])

\* ------------------------------------------------------------------
\* C23: each of the five dimension scores lies in [0,1] (0..1000
\* thousandths), overall lies in [0,10] and is 10 x the weighted sum
\* 0.25 tagOverlap + 0.20 artistSimilarity + 0.15 temporalProximity
\* + 0.25 vectorSimilarity + 0.15 popularityFit.
C23_ScoresWithinBounds ==
    spc = "scored" =>
        /\ \A d \in {"tagOverlap", "artistSimilarity", "temporalProximity",
                     "vectorSimilarity", "popularityFit"} :
               scoreOut[d] >= 0 /\ scoreOut[d] <= 1000
        /\ scoreOut.overall >= 0
        /\ scoreOut.overall <= 100000
        /\ scoreOut.overall =
               25 * scoreOut.tagOverlap + 20 * scoreOut.artistSimilarity
                 + 15 * scoreOut.temporalProximity
                 + 25 * scoreOut.vectorSimilarity
                 + 15 * scoreOut.popularityFit

\* a candidate with a billion plays scored under the popular bias, sharing
\* a tag and the artist with the seed
C23_Witness ==
    /\ spc = "scored"
    /\ scoreIn.bias = "popular"
    /\ scoreIn.playcountKnown
    /\ scoreIn.playcount = 999999999
    /\ scoreOut.popularityFit = 1000
    /\ scoreOut.artistSimilarity = 1000
    /\ scoreOut.tagOverlap > 0

\* C24: the category is popular above 1,000,000 plays, deep-cut above
\* 100,000, and hidden-gem otherwise, an unknown playcount included.
C24_CategoryByPlaycount ==
    spc = "scored" =>
        scoreOut.category =
            CASE scoreIn.playcountKnown /\ scoreIn.playcount > 1000000 -> "popular"
              [] scoreIn.playcountKnown /\ scoreIn.playcount > 100000 -> "deep-cut"
              [] OTHER -> "hidden-gem"

\* ------------------------------------------------------------------
\* C22: the scored list is non-increasing in overall, and tracks of equal
\* overall are in the order of their discovery; it holds every scored track
\* once.
C22_SortedAndStable ==
    lpc # "scoring" =>
        /\ {scored[i].id : i \in 1..Len(scored)} = 1..Len(scored)
        /\ \A i, j \in 1..Len(scored) :
             i < j =>
                /\ scored[i].overall >= scored[j].overall
                /\ scored[i].overall = scored[j].overall =>
                      scored[i].id < scored[j].id

\* the third-discovered track was sorted to the front, and the first two,
\* tied, follow in their order of discovery
C22_Witness ==
    /\ lpc = "curating"
    /\ Len(scored) = 3
    /\ scored[1].id = 3
    /\ scored[2].id = 1
    /\ scored[3].id = 2
    /\ scored[2].overall = scored[3].overall

\* the quotas as the claims state them: floor(0.35 x size), floor(0.50 x
\* size) and ceil(0.15 x size)
ClaimedQuota(category, size) ==
    CASE category = "popular" -> (35 * size) \div 100
      [] category = "deep-cut" -> (50 * size) \div 100
      [] OTHER -> (15 * size) \div 100
                    + (IF (15 * size) % 100 = 0 THEN 0 ELSE 1)

ClaimedQuotaSum(size) ==
    ClaimedQuota("popular", size) + ClaimedQuota("deep-cut", size)
      + ClaimedQuota("hidden-gem", size)

\* the number of tracks of a category in a list
CountOf(seq, category) == Len(OfCategory(seq, category))

\* curatePlaylist has run
Curated == lpc \in {"explaining", "complete"}

\* every category holds at least its quota of scored candidates
QuotasAvailable ==
    \A c \in Categories : CountOf(scored, c) >= ClaimedQuota(c, playlistTarget)

\* the playlist's tracks of each category are that category's best
BestOfCategory ==
    \A i \in 1..Len(finalPlaylist), j \in 1..Len(scored) :
        (/\ scored[j].category = finalPlaylist[i].category
         /\ \A k \in 1..Len(finalPlaylist) : finalPlaylist[k].id # scored[j].id)
            => finalPlaylist[i].overall >= scored[j].overall

\* C25 as stated: when every category holds its quota, the playlist has
\* exactly the quota of each category, each the best of its category, and
\* targetSize tracks in all.
C25_ExactQuotas ==
    (Curated /\ QuotasAvailable) =>
        /\ \A c \in Categories :
              CountOf(finalPlaylist, c) = ClaimedQuota(c, playlistTarget)
        /\ BestOfCategory
        /\ Len(finalPlaylist) = playlistTarget

\* C25: when every category holds its quota, the playlist has at least the
\* quota of each category, each the best of its category; it has exactly
\* the quotas and targetSize tracks in all when the three quotas sum to
\* targetSize.
C25_QuotasWhenTheySum ==
    (Curated /\ QuotasAvailable) =>
        /\ \A c \in Categories :
              CountOf(finalPlaylist, c) >= ClaimedQuota(c, playlistTarget)
        /\ BestOfCategory
        /\ ClaimedQuotaSum(playlistTarget) = playlistTarget =>
              /\ \A c \in Categories :
                    CountOf(finalPlaylist, c) = ClaimedQuota(c, playlistTarget)
              /\ Len(finalPlaylist) = playlistTarget

\* a playlist of 4 (quotas 1, 2, 1) curated from 5 candidates of which
\* every category holds its quota
C25_Witness ==
    /\ Curated
    /\ QuotasAvailable
    /\ playlistTarget = 4
    /\ Len(scored) = 5
    /\ CountOf(finalPlaylist, "popular") = 1
    /\ CountOf(finalPlaylist, "deep-cut") = 2
    /\ CountOf(finalPlaylist, "hidden-gem") = 1

\* the number of tracks the quota loop selects
ClaimedPicks ==
    LET picked(c) == Min(CountOf(scored, c), ClaimedQuota(c, playlistTarget))
    IN  picked("popular") + picked("deep-cut") + picked("hidden-gem")

\* C26: the playlist has min(targetSize, number of scored candidates)
\* tracks, none of them twice; the tracks after the quota picks are in
\* overall order and no unselected candidate has a higher overall.
C26_FilledToTarget ==
    Curated =>
        /\ Len(finalPlaylist) = Min(playlistTarget, Len(scored))
        /\ \A i, j \in 1..Len(finalPlaylist) :
              i # j => finalPlaylist[i].id # finalPlaylist[j].id
        /\ \A i \in 1..Len(finalPlaylist) :
              i > ClaimedPicks =>
                /\ \A j \in 1..Len(finalPlaylist) :
                      j > i => finalPlaylist[i].overall >= finalPlaylist[j].overall
                /\ \A j \in 1..Len(scored) :
                      (\A k \in 1..Len(finalPlaylist) :
                            finalPlaylist[k].id # scored[j].id)
                         => finalPlaylist[i].overall >= scored[j].overall

\* five popular candidates and a playlist of 5: the popular quota selects
\* one and the fill the other four
C26_Witness ==
    /\ Curated
    /\ playlistTarget = 5
    /\ Len(scored) = 5
    /\ CountOf(scored, "popular") = 5
    /\ Len(finalPlaylist) = 5

\* C27: the positions of a final playlist of length N are 1..N in list
\* order, after curation and after the explaining stage.
C27_PositionsContiguous ==
    Curated =>
        \A i \in 1..Len(finalPlaylist) : finalPlaylist[i].position = i

\* an explained playlist of three tracks
C27_Witness ==
    /\ lpc = "complete"
    /\ Len(finalPlaylist) = 3
    /\ finalPlaylist[3].position = 3

\* C28: in a final playlist of length N >= 1 the first track is the opener
\* and, when N >= 2, the last track is the closer.
C28_OpenerAndCloser ==
    (Curated /\ Len(finalPlaylist) >= 1) =>
        /\ finalPlaylist[1].flowRole = "opener"
        /\ Len(finalPlaylist) >= 2 =>
              finalPlaylist[Len(finalPlaylist)].flowRole = "closer"

\* C30: after the explaining stage every playlist track has a non-empty
\* reason.
C30_ReasonsNonEmpty ==
    lpc = "complete" =>
        \A i \in 1..Len(finalPlaylist) : finalPlaylist[i].reason # ""

\* the LLM's array had a text for the first track and an empty or no entry
\* for the others
C30_Witness ==
    /\ lpc = "complete"
    /\ Len(finalPlaylist) = 3
    /\ finalPlaylist[1].reason = "text"
    /\ finalPlaylist[2].reason = generateFallbackReason
    /\ finalPlaylist[3].reason = generateFallbackReason

\* C29: a run whose discovery finds nothing (the pool is the seed alone)
\* scores no candidate, curates an empty playlist, records no error in the
\* generating, scoring, curating or explaining stage and is complete with
\* no error; stated for a run that received a single /start and no /cancel.
C29_SeedOnlyRunCompletes ==
    (/\ starts <= 1
     /\ ~cancelled
     /\ stored # Null
     /\ stored.candidatePool = 1) =>
        /\ stored.status \in {"curating", "explaining", "complete"} =>
              stored.scoredCandidates = 0
        /\ stored.status \in {"explaining", "complete"} =>
              stored.finalPlaylist = 0
        /\ stored.status = "complete" => stored.error = Null
        /\ stored.status = "failed" =>
              stored.error.stage \notin
                  {"generating", "scoring", "curating", "explaining"}

\* the run of a seed-only pool is complete with an empty playlist
C29_Witness ==
    /\ starts = 1
    /\ ~cancelled
    /\ stored # Null
    /\ stored.status = "complete"
    /\ stored.candidatePool = 1
    /\ stored.scoredCandidates = 0
    /\ stored.finalPlaylist = 0
    /\ stored.reasons
    /\ stored.error = Null

\* =================================================================
\* streamProgress: the /stream response of the pipeline object.  sendUpdate
\* awaits a storage read only, so each call is one step; the run behind the
\* stream is a run that receives a single /start.
\* =================================================================

\* the data of an event: status, progress and error of the loaded state
StreamData(st) ==
    [status |-> st.status, progress |-> st.progress, error |-> st.error]

\* sendUpdate that leaves the stream open after a terminal state
Enqueue_keepOpen(st) ==
    /\ lastEmit' = StreamData(st)
    /\ emitParity' = ~emitParity
    /\ UNCHANGED <<streamPc, interval>>

\* sendUpdate from controller.enqueue on: the event, then clearInterval and
\* controller.close() when the status is complete or failed
Enqueue(st) ==
    /\ lastEmit' = StreamData(st)
    /\ emitParity' = ~emitParity
    /\ IF st.status \in Terminal
       THEN streamPc' = "closed" /\ interval' = FALSE
       ELSE UNCHANGED <<streamPc, interval>>

\* GET /stream: the stream's start callback awaits the first sendUpdate
\* (clearInterval finds no timer yet) and then sets the timer
streamProgress ==
    /\ ~Gated
    /\ streamPc = "none"
    /\ pipelineState' = stored
    /\ IF stored = Null
       THEN /\ streamPc' = "open"
            /\ UNCHANGED <<lastEmit, emitParity>>
       ELSE /\ lastEmit' = StreamData(stored)
            /\ emitParity' = ~emitParity
            /\ streamPc' = IF stored.status \in Terminal THEN "closed" ELSE "open"
    /\ interval' = TRUE
    /\ UNCHANGED <<stored, pc, local, starts, hasApiKey, dbStatus, dbTrackCount, r2Key,
                   cancelled, cancelPending, lookupFailed>>
    /\ UNCHANGED outsideStream

\* the timer fires: sendUpdate.  loadState(), nothing without a state; on a
\* closed controller enqueue throws and nothing is emitted
sendUpdate ==
    /\ ~Gated
    /\ interval
    /\ pipelineState' = stored
    /\ IF stored = Null \/ streamPc # "open"
       THEN UNCHANGED <<streamPc, interval, lastEmit, emitParity>>
       ELSE Enqueue(stored)
    /\ UNCHANGED <<stored, pc, local, starts, hasApiKey, dbStatus, dbTrackCount, r2Key,
                   cancelled, cancelPending, lookupFailed>>
    /\ UNCHANGED outsideStream

\* the client goes away: the stream's cancel callback clears the timer
streamCancel ==
    /\ streamPc = "open"
    /\ interval
    /\ streamPc' = "cancelled"
    /\ interval' = FALSE
    /\ UNCHANGED <<lastEmit, emitParity>>
    /\ UNCHANGED pipelineVars
    /\ UNCHANGED outsideStream

\* the one /start of the run behind the stream
FirstStart == starts = 0 /\ startPipeline

StreamNext ==
    \/ FirstStart
    \/ getStatus
    \/ cancelPipeline
    \/ \E e \in Execs : executePipeline(e)
    \/ streamProgress
    \/ sendUpdate
    \/ streamCancel

StreamSpec == Init /\ [][StreamNext]_vars

\* the timer fires while it is set, and every awaited external call of the
\* execution is answered
StreamLiveSpec ==
    /\ StreamSpec
    /\ WF_vars(sendUpdate)
    /\ \A e \in Execs : WF_vars(executePipeline(e))

\* an event is enqueued in this step
Emits == emitParity' # emitParity

\* C31: while the stream is open every sendUpdate emits the persisted
\* state; the stream is closed by the emission of a complete or failed state
\* and by nothing else, and emits nothing once it is closed; a stream that
\* is open on a run in a terminal state is eventually closed (by the server,
\* or cancelled by the client).
C31_StreamUntilTerminal ==
    /\ [][/\ (sendUpdate /\ streamPc = "open" /\ stored # Null) => Emits
          /\ Emits => /\ streamPc \in {"none", "open"}
                      /\ stored # Null
                      /\ lastEmit' = StreamData(stored)
                      /\ (streamPc' = "closed") = (stored.status \in Terminal)
          /\ (streamPc # "closed" /\ streamPc' = "closed") => Emits
          /\ streamPc = "closed" => streamPc' = "closed"]_vars
    /\ (streamPc = "open" /\ stored # Null /\ stored.status \in Terminal)
           ~> (streamPc \in {"closed", "cancelled"})

\* the stream emitted a state in progress, later the complete state, and
\* closed
C31_Witness ==
    /\ streamPc = "closed"
    /\ ~interval
    /\ emitParity = FALSE
    /\ lastEmit # Null
    /\ lastEmit.status = "complete"
    /\ lastEmit.progress = 100

\* =================================================================
\* POST /api/generate and the credits of one user.  Every D1 statement is
\* atomic; a request awaits between its statements, so the statements of
\* concurrent requests interleave.  The run a request starts ends in the
\* pipeline object (executePipeline), which writes the runs table only.
\* =================================================================

\* SELECT * FROM users, the body, the validation and the credit check:
\* creditsNeeded = CREDIT_COSTS[playlistSize], 402 when the credits read
\* are fewer
generate_check(q) ==
    /\ qpc[q] = "idle"
    /\ \A p \in Requests : p < q => qpc[p] # "idle"
    /\ \E size \in DOMAIN CREDIT_COSTS :
         LET creditsNeeded == CREDIT_COSTS[size]
         IN  /\ qreq' = [qreq EXCEPT ![q] =
                    [creditsAvailable |-> creditsAvailable,
                     creditsNeeded |-> creditsNeeded]]
             /\ qpc' = [qpc EXCEPT ![q] =
                    IF creditsAvailable < creditsNeeded
                    THEN "rejected" ELSE "reserve"]
    /\ UNCHANGED <<creditsAvailable, creditsPending, creditsUsedTotal, runs>>
    /\ UNCHANGED outsideCredits

\* UPDATE users SET credits_available = credits_available - ?,
\* credits_pending = credits_pending + ?
generate_reserve(q) ==
    /\ qpc[q] = "reserve"
    /\ creditsAvailable' = creditsAvailable - qreq[q].creditsNeeded
    /\ creditsPending' = creditsPending + qreq[q].creditsNeeded
    /\ qpc' = [qpc EXCEPT ![q] = "insert"]
    /\ UNCHANGED <<creditsUsedTotal, qreq, runs>>
    /\ UNCHANGED outsideCredits

\* INSERT INTO runs (..., status 'pending', ...)
generate_insert(q) ==
    /\ qpc[q] = "insert"
    /\ runs' = [runs EXCEPT ![q] = "pending"]
    /\ qpc' = [qpc EXCEPT ![q] = "start"]
    /\ UNCHANGED <<creditsAvailable, creditsPending, creditsUsedTotal, qreq>>
    /\ UNCHANGED outsideCredits

\* fetch(.../start): the worker answers 2xx (the run is started and the
\* request returns), answers non-2xx, or the fetch throws
generate_start(q) ==
    /\ qpc[q] = "start"
    /\ \E answer \in {"ok", "notOk", "throws"} :
         CASE answer = "ok" ->
                /\ runs' = [runs EXCEPT ![q] = "running"]
                /\ qpc' = [qpc EXCEPT ![q] = "returned"]
           [] answer = "notOk" ->
                /\ qpc' = [qpc EXCEPT ![q] = "rollback"]
                /\ UNCHANGED runs
           [] answer = "throws" ->
                /\ qpc' = [qpc EXCEPT ![q] = "catch"]
                /\ UNCHANGED runs
    /\ UNCHANGED <<creditsAvailable, creditsPending, creditsUsedTotal, qreq>>
    /\ UNCHANGED outsideCredits

\* if (!pipelineResponse.ok): the rollback UPDATE, then throw error(500)
\* inside the try block, which its catch receives
generate_rollback(q) ==
    /\ qpc[q] = "rollback"
    /\ creditsAvailable' = creditsAvailable + qreq[q].creditsNeeded
    /\ creditsPending' = creditsPending - qreq[q].creditsNeeded
    /\ qpc' = [qpc EXCEPT ![q] = "catch"]
    /\ UNCHANGED <<creditsUsedTotal, qreq, runs>>
    /\ UNCHANGED outsideCredits

\* catch (err): the rollback UPDATE, then throw err
generate_catch(q) ==
    /\ qpc[q] = "catch"
    /\ creditsAvailable' = creditsAvailable + qreq[q].creditsNeeded
    /\ creditsPending' = creditsPending - qreq[q].creditsNeeded
    /\ qpc' = [qpc EXCEPT ![q] = "startFailed"]
    /\ UNCHANGED <<creditsUsedTotal, qreq, runs>>
    /\ UNCHANGED outsideCredits

\* executePipeline reaches complete: saveToDatabase sets runs.status
run_complete(q) ==
    /\ runs[q] = "running"
    /\ runs' = [runs EXCEPT ![q] = "complete"]
    /\ UNCHANGED <<creditsAvailable, creditsPending, creditsUsedTotal, qpc, qreq>>
    /\ UNCHANGED outsideCredits

\* executePipeline's catch block or /cancel: the state is failed, stored in
\* the object only
run_failed(q) ==
    /\ runs[q] = "running"
    /\ runs' = [runs EXCEPT ![q] = "failed"]
    /\ UNCHANGED <<creditsAvailable, creditsPending, creditsUsedTotal, qpc, qreq>>
    /\ UNCHANGED outsideCredits

CreditNext ==
    \/ \E q \in Requests : generate_check(q)
    \/ \E q \in Requests : generate_reserve(q)
    \/ \E q \in Requests : generate_insert(q)
    \/ \E q \in Requests : generate_start(q)
    \/ \E q \in Requests : generate_rollback(q)
    \/ \E q \in Requests : generate_catch(q)
    \/ \E q \in Requests : run_complete(q)
    \/ \E q \in Requests : run_failed(q)

CreditSpec == ComponentInit /\ [][CreditNext]_vars

\* no generate request is between its credit check and its end
NoRequestInFlight ==
    \A q \in Requests : qpc[q] \in {"idle", "rejected", "returned", "startFailed"}

\* the credits of the runs in the given states
CreditsOf(states) ==
    LET RECURSIVE Sum(_)
        Sum(n) == IF n = 0 THEN 0
                  ELSE Sum(n - 1) + (IF runs[n] \in states
                                     THEN qreq[n].creditsNeeded ELSE 0)
    IN  Sum(MaxRequests)

\* C32: when no request is in flight and every request that was made has
\* started its run, the pending credits are those of the runs in progress,
\* the used credits those of the completed runs, and the credits of the
\* failed runs are available again.
C32_PendingOnlyWhileRunning ==
    (/\ NoRequestInFlight
     /\ \A q \in Requests : qpc[q] # "startFailed") =>
        /\ creditsPending = CreditsOf({"running"})
        /\ creditsUsedTotal = CreditsOf({"complete"})
        /\ creditsAvailable =
              DefaultCredits - CreditsOf({"running", "complete"})

\* C38: when every request made so far has ended with a failed start (or
\* was rejected before reserving), the available and the pending credits
\* are what they were before the requests.
C38_RollbackExactlyOnce ==
    (\A q \in Requests : qpc[q] \in {"idle", "rejected", "startFailed"}) =>
        /\ creditsAvailable = DefaultCredits
        /\ creditsPending = 0

\* C39: credits_available is never negative.
C39_AvailableNeverNegative ==
    creditsAvailable >= 0

\* a strategy of generateCandidates is running
Strategies == {"similarTracks", "artistTopTracks", "tagTopTracks"}

\* C33: the strategies are entered in the order similar tracks, similar
\* artists' top tracks, tag-based discovery; a strategy after the first is
\* entered only while the candidates are below the target; a candidate is
\* added only while they are below the target, one at a time.
C33_StrategiesInOrder ==
    [][/\ (gpc' # gpc /\ gpc' \in Strategies) =>
             /\ gpc' = "similarTracks" => gpc = "idle"
             /\ gpc' = "artistTopTracks" =>
                    gpc = "similarTracks" /\ ~TargetReached(candidates, targetSize)
             /\ gpc' = "tagTopTracks" =>
                    gpc = "artistTopTracks" /\ ~TargetReached(candidates, targetSize)
       /\ Len(candidates') > Len(candidates) =>
             /\ gpc \in Strategies
             /\ ~TargetReached(candidates, targetSize)
             /\ Len(candidates') = Len(candidates) + 1]_vars

\* the third strategy runs with the candidates one short of the target
C33_Witness ==
    /\ gpc = "tagTopTracks"
    /\ Len(candidates) = 4 * targetSize - 1

\* a playlist track without its reason
WithoutReason(track) == [track EXCEPT !.reason = ""]

C35_FallbackByOverlap ==
    spc = "explained" =>
        fallbackReason =
            CASE scoreOut.tagOverlap > 0 -> "sharedTags"
              [] scoreOut.artistSimilarity > 500 -> "artistOrbit"
              [] OTHER -> "mood"

\* C36: every persisted state with status complete has completedAt set
\* (stated for a run that received a single /start and no /cancel).
C36_CompleteHasCompletedAt ==
    (/\ starts <= 1
     /\ ~cancelled
     /\ stored # Null
     /\ stored.status = "complete") => stored.completedAt

\* no background execution of the run is still at work
ExecutionsEnded == \A e \in Execs : pc[e] \in {"idle", "done"}

\* C37: once the run has ended in a terminal state, its row in the runs
\* table has that status: complete with track_count the length of the
\* playlist when the run is complete, and no longer pending when the run is
\* failed (stated for a run that received a single /start).
C37_RunRecordFollowsRun ==
    (/\ starts = 1
     /\ ExecutionsEnded
     /\ stored # Null
     /\ stored.status \in Terminal) =>
        /\ stored.status = "complete" =>
              dbStatus = "complete" /\ dbTrackCount = stored.finalPlaylist
        /\ stored.status = "failed" => dbStatus # "pending"

\* =================================================================
\* The cached lookups of the service library: LastfmService.getTrackInfo
\* and MusicBrainzService.getRecording.  Each reads the KV cache, and on a
\* miss calls request() (the limiter, then the network, modelled above with
\* the adapters) and stores the result.  Lookups of different callers
\* interleave at every await.
\* =================================================================

\* the lookup's record after a step
Looked(l, fields) == [kreq EXCEPT ![l] = fields]

\* a lookup that does not consult the cache
lookup_get_uncached(l) ==
    /\ kpc[l] = "idle"
    /\ \A m \in Lookups : m < l => kpc[m] # "idle"
    /\ \E method \in CachedLookups :
         kreq' = Looked(l, [NoLookup EXCEPT !.method = method,
                                            !.cached = cache[method]])
    /\ kpc' = [kpc EXCEPT ![l] = "acquire"]
    /\ UNCHANGED cache
    /\ UNCHANGED outsideCache

\* const cached = await this.cache.get(cacheKey); if (cached) return cached
lookup_get(l) ==
    /\ kpc[l] = "idle"
    /\ \A m \in Lookups : m < l => kpc[m] # "idle"
    /\ \E method \in CachedLookups :
         LET cached == cache[method]
         IN  /\ kreq' = Looked(l, [NoLookup EXCEPT
                                      !.method = method,
                                      !.cached = cached,
                                      !.result = cached])
             /\ kpc' = [kpc EXCEPT ![l] =
                    IF cached # "none" THEN "returned" ELSE "acquire"]
    /\ UNCHANGED cache
    /\ UNCHANGED outsideCache

\* request(): the limiter is asked for a token; a failure of that call is
\* caught by the lookup, which returns null
lookup_acquire(l) ==
    /\ kpc[l] = "acquire"
    /\ \E ok \in BOOLEAN :
         IF ok
         THEN /\ kreq' = Looked(l, [kreq[l] EXCEPT !.acquired = TRUE])
              /\ kpc' = [kpc EXCEPT ![l] = "fetch"]
         ELSE /\ kreq' = Looked(l, [kreq[l] EXCEPT !.failed = TRUE,
                                                   !.result = "null"])
              /\ kpc' = [kpc EXCEPT ![l] = "returned"]
    /\ UNCHANGED cache
    /\ UNCHANGED outsideCache

\* request(): fetch(url); a non-ok status, an error body or a body without
\* the expected fields ends in the lookup's catch block
lookup_fetch(l) ==
    /\ kpc[l] = "fetch"
    /\ \/ \E data \in Payloads :
            /\ kreq' = Looked(l, [kreq[l] EXCEPT !.fetched = TRUE, !.data = data])
            /\ kpc' = [kpc EXCEPT ![l] = "put"]
       \/ /\ kreq' = Looked(l, [kreq[l] EXCEPT !.fetched = TRUE,
                                                !.failed = TRUE,
                                                !.result = "null"])
          /\ kpc' = [kpc EXCEPT ![l] = "returned"]
    /\ UNCHANGED cache
    /\ UNCHANGED outsideCache

\* await this.cache.put(cacheKey, JSON.stringify(result)); return result
\* (a put that throws is caught too)
lookup_put(l) ==
    /\ kpc[l] = "put"
    /\ \E ok \in BOOLEAN :
         IF ok
         THEN /\ cache' = [cache EXCEPT ![kreq[l].method] = kreq[l].data]
              /\ kreq' = Looked(l, [kreq[l] EXCEPT !.result = kreq[l].data])
         ELSE /\ kreq' = Looked(l, [kreq[l] EXCEPT !.failed = TRUE,
                                                   !.result = "null"])
              /\ UNCHANGED cache
    /\ kpc' = [kpc EXCEPT ![l] = "returned"]
    /\ UNCHANGED outsideCache

CacheNext ==
    \/ \E l \in Lookups : lookup_get(l)
    \/ \E l \in Lookups : lookup_acquire(l)
    \/ \E l \in Lookups : lookup_fetch(l)
    \/ \E l \in Lookups : lookup_put(l)

CacheSpec == ComponentInit /\ [][CacheNext]_vars

\* lookup l returns in this step
Returns(l) == kpc[l] # "returned" /\ kpc'[l] = "returned"

====
